---- MODULE Spec2Model ----
(***************************************************************************)
(* Model of the segmented log-structured key-value store of                *)
(* sifes/architecture-practice-5 (package datastore): the record codec,    *)
(* the buffered stream decoder, the segment files, the hash index, the     *)
(* single writer goroutine with rotation and merge, the merger goroutine   *)
(* and Close.                                                              *)
(*                                                                         *)
(* Bytes are numbers 0..255, a file is the sequence of its bytes, a key    *)
(* and a string value are byte sequences.  Offsets are 0-based as in the   *)
(* source; TLA+ sequences are 1-based, so byte i of the source is b[i+1].  *)
(***************************************************************************)
EXTENDS Integers, Sequences, FiniteSets, TLC

(***************************************************************************)
(* Program constants                                                       *)
(***************************************************************************)
TypeString == 1
TypeInt64 == 2
outFileName == "current-data"
segmentFilePrefix == "segment-"
tempMergeName == "temp-merge"
\* the key "__MERGE__" as bytes
MergeKey == <<95, 95, 77, 69, 82, 71, 69, 95, 95>>
\* size of the buffer of bufio.NewReader
defaultBufSize == 4096
\* tryMerge: "if segmentCount < 3 { return }"
mergeThreshold == 3
\* capacity of putChan
putChanCap == 100

Min(a, b) == IF a < b THEN a ELSE b
Max(a, b) == IF a > b THEN a ELSE b

(***************************************************************************)
(* Little-endian integers (encoding/binary)                                *)
(***************************************************************************)
\* binary.LittleEndian.PutUint32 of n, 0 <= n < 2^31
U32LE(n) ==
    << n % 256, (n \div 256) % 256, (n \div 65536) % 256, (n \div 16777216) % 256 >>

\* the uint32 at 0-based offset off of b, when it is below 2^30
U32Val(b, off) ==
    b[off + 1] + 256 * b[off + 2] + 65536 * b[off + 3] + 16777216 * b[off + 4]

\* the uint32 at off is at least 2^30: larger than every buffer of the model
U32Large(b, off) == b[off + 4] >= 64

\* c + (the uint32 at off) is at least 2^32, so that the uint32 sum wraps
\* around (1 <= c <= 256)
U32AddWraps(b, off, c) ==
    /\ b[off + 4] = 255
    /\ b[off + 3] = 255
    /\ b[off + 2] = 255
    /\ b[off + 1] >= 256 - c

\* binary.LittleEndian.PutUint64(uint64(n)) of an int64 n with -2^31 <= n < 2^31:
\* two's complement, the upper four bytes are the sign extension
I64LE(n) ==
    << n % 256, (n \div 256) % 256, (n \div 65536) % 256, (n \div 16777216) % 256,
       IF n < 0 THEN 255 ELSE 0, IF n < 0 THEN 255 ELSE 0,
       IF n < 0 THEN 255 ELSE 0, IF n < 0 THEN 255 ELSE 0 >>

\* a value standing for every int64 outside -2^31+1 .. 2^31-2
Int64OutOfRange == 2147483647

\* int64(binary.LittleEndian.Uint64(b[:8]))
I64Val(b) ==
    IF b[5] = 0 /\ b[6] = 0 /\ b[7] = 0 /\ b[8] = 0 /\ b[4] < 128
    THEN LET v == b[1] + 256 * b[2] + 65536 * b[3] + 16777216 * b[4]
         IN  IF v = Int64OutOfRange THEN Int64OutOfRange ELSE v
    ELSE IF b[5] = 255 /\ b[6] = 255 /\ b[7] = 255 /\ b[8] = 255 /\ b[4] >= 128
    THEN b[1] + 256 * b[2] + 65536 * b[3] + 16777216 * (b[4] - 256)
    ELSE Int64OutOfRange

(***************************************************************************)
(* entry: the record codec                                                 *)
(***************************************************************************)
StringEntry(k, v) ==
    [key |-> k, valueType |-> TypeString, stringValue |-> v, int64Value |-> 0]

Int64Entry(k, n) ==
    [key |-> k, valueType |-> TypeInt64, stringValue |-> <<>>, int64Value |-> n]

\* the zero value of entry ("var record entry")
ZeroEntry ==
    [key |-> <<>>, valueType |-> 0, stringValue |-> <<>>, int64Value |-> 0]

\* entry.Encode: (full size) (kl) (key) (type) (value data)
Encode(e) ==
    LET kl == Len(e.key)
        valueData ==
            IF e.valueType = TypeInt64
            THEN I64LE(e.int64Value)
            ELSE U32LE(Len(e.stringValue)) \o e.stringValue
        valueType ==
            IF e.valueType \in {TypeString, TypeInt64} THEN e.valueType ELSE TypeString
        size == 4 + 4 + kl + 1 + Len(valueData)
    IN  U32LE(size) \o U32LE(kl) \o e.key \o <<valueType>> \o valueData

DecodeOk(e) == [err |-> "nil", e |-> e]
DecodeErr(msg) == [err |-> msg, e |-> ZeroEntry]

\* the value part of entry.Decode: "switch e.valueType"
DecodeValue(key, valueType, valueData) ==
    IF valueType = TypeString
    THEN IF Len(valueData) < 4 THEN DecodeErr("invalid string value data")
         ELSE IF U32AddWraps(valueData, 0, 4) THEN DecodeErr("panic")
         ELSE IF U32Large(valueData, 0) \/ Len(valueData) < 4 + U32Val(valueData, 0)
         THEN DecodeErr("string value data too short")
         ELSE DecodeOk([key |-> key, valueType |-> TypeString, int64Value |-> 0,
                        stringValue |-> SubSeq(valueData, 5, 4 + U32Val(valueData, 0))])
    ELSE IF valueType = TypeInt64
    THEN IF Len(valueData) < 8 THEN DecodeErr("invalid int64 value data")
         ELSE DecodeOk([key |-> key, valueType |-> TypeInt64, stringValue |-> <<>>,
                        int64Value |-> I64Val(SubSeq(valueData, 1, 8))])
    ELSE \* unknown type: treated as a string
         IF Len(valueData) >= 4 /\ U32AddWraps(valueData, 0, 4) THEN DecodeErr("panic")
         ELSE IF /\ Len(valueData) >= 4
                 /\ ~U32Large(valueData, 0)
                 /\ Len(valueData) >= 4 + U32Val(valueData, 0)
         THEN DecodeOk([key |-> key, valueType |-> TypeString, int64Value |-> 0,
                        stringValue |-> SubSeq(valueData, 5, 4 + U32Val(valueData, 0))])
         ELSE DecodeOk([key |-> key, valueType |-> TypeString, int64Value |-> 0,
                        stringValue |-> valueData])

\* entry.Decode after the checks of the key length
decodeKeyed(input, keyLen) ==
    IF 8 + keyLen + 1 >= Len(input) THEN DecodeErr("no value data")
    ELSE DecodeValue(SubSeq(input, 9, 8 + keyLen), input[8 + keyLen + 1],
                     SubSeq(input, 8 + keyLen + 2, Len(input)))

\* entry.Decode.  The sums 8+keyLen+1 and 4+strLen are uint32 sums: when they
\* wrap around, the length check passes and the slice expression that follows
\* is out of range (err "panic").
Decode(input) ==
    IF Len(input) < 9 THEN DecodeErr("input too short")
    ELSE IF U32AddWraps(input, 4, 9) THEN DecodeErr("panic")
    ELSE IF U32Large(input, 4) \/ Len(input) < 8 + U32Val(input, 4) + 1
    THEN DecodeErr("input too short for key")
    ELSE decodeKeyed(input, U32Val(input, 4))

(***************************************************************************)
(* bufio.Reader over a file.  The buffer holds a window of the file: r is  *)
(* the file offset of the next unread byte, w the file offset where the    *)
(* buffered bytes end.                                                     *)
(***************************************************************************)
\* file.Seek(offset, 0); bufio.NewReader(file)
NewReader(offset) == [r |-> offset, w |-> offset]

\* in.Peek(4): fills the buffer (one read of the file, up to the buffer's
\* size) only when fewer than 4 bytes are buffered
Peek4(rd, data) ==
    IF rd.w - rd.r >= 4 THEN rd
    ELSE [r |-> rd.r, w |-> Max(rd.w, Min(Len(data), rd.r + defaultBufSize))]

\* what DecodeFromReader returns
decoded(n, err, e, r, w) == [n |-> n, err |-> err, e |-> e, rd |-> [r |-> r, w |-> w]]

\* the end of DecodeFromReader: "err = e.Decode(buf); return n, err"
decodeBuf(d, n, p) == decoded(n, d.err, d.e, p.r + n, p.w)

\* DecodeFromReader from "buf := make([]byte, totalSize); n, err := in.Read(buf)":
\* Read copies what is buffered, at most len(buf) bytes, and does not read
\* the file again
decodeSized(p, data, totalSize) ==
    IF totalSize < 9 THEN decoded(0, "invalid entry size", ZeroEntry, p.r, p.w)
    ELSE IF p.w - p.r < totalSize
    THEN decoded(p.w - p.r, "incomplete read", ZeroEntry, p.w, p.w)
    ELSE decodeBuf(Decode(SubSeq(data, p.r + 1, p.r + totalSize)), totalSize, p)

\* DecodeFromReader after in.Peek(4) has left the reader as p
decodePeeked(p, data) ==
    IF p.w - p.r < 4 THEN decoded(0, "EOF", ZeroEntry, p.r, p.w)
    ELSE IF U32Large(data, p.r)
    THEN decoded(p.w - p.r, "incomplete read", ZeroEntry, p.w, p.w)
    ELSE decodeSized(p, data, U32Val(data, p.r))

\* entry.DecodeFromReader
DecodeFromReader(rd, data) == decodePeeked(Peek4(rd, data), data)

(***************************************************************************)
(* The data directory and the Db object.  A "world" is the record of the   *)
(* directory (fs: path -> bytes) and of the fields of Db that the writer   *)
(* goroutine changes.  Every operation of the writer is a function from    *)
(* worlds to worlds; the actions below apply them.                         *)
(***************************************************************************)
outPath == <<outFileName>>
tempPath == <<tempMergeName>>
\* filepath.Join(db.dir, fmt.Sprintf("%s%d", segmentFilePrefix, id))
SegPath(id) == <<segmentFilePrefix, id>>

segmentInfo(id) == [id |-> id, filePath |-> SegPath(id)]
indexEntry(id, off) == [segmentID |-> id, offset |-> off]

\* m[k] = v on a Go map
MapSet(m, k, v) == [x \in DOMAIN m \cup {k} |-> IF x = k THEN v ELSE m[x]]

RECURSIVE SetMax(_)
SetMax(S) ==
    IF Cardinality(S) = 1 THEN CHOOSE a \in S : TRUE
    ELSE Max(CHOOSE a \in S : TRUE, SetMax(S \ {CHOOSE a \in S : TRUE}))

\* sort.Slice(s, func(i, j) bool { return s[i].id < s[j].id })
RECURSIVE SortById(_)
SortById(s) ==
    IF Len(s) <= 1 THEN s
    ELSE LET m == CHOOSE i \in 1..Len(s) : \A j \in 1..Len(s) :
                      s[i].id < s[j].id \/ (s[i].id = s[j].id /\ i <= j)
         IN  <<s[m]>> \o SortById(SubSeq(s, 1, m - 1) \o SubSeq(s, m + 1, Len(s)))

RECURSIVE SetToSeq(_)
SetToSeq(S) ==
    IF S = {} THEN <<>>
    ELSE <<CHOOSE a \in S : TRUE>> \o SetToSeq(S \ {CHOOSE a \in S : TRUE})

\* the ids of the segment-<id> files of a directory
segmentIds(fs0) == {name[2] : name \in {nm \in DOMAIN fs0 : nm[1] = segmentFilePrefix}}

\* loadExistingSegments numbering the active segment by the count of the
\* segment files instead of the highest id
loadIdsCounted(w, ids) ==
    [w EXCEPT !.segments = SortById(SetToSeq({segmentInfo(id) : id \in ids})),
              !.activeSegmentID = Cardinality(ids)]

\* the end of loadExistingSegments for the ids found
loadIds(w, ids) ==
    [w EXCEPT !.segments = SortById(SetToSeq({segmentInfo(id) : id \in ids})),
              !.activeSegmentID = IF ids = {} THEN 0 ELSE SetMax(ids) + 1]

\* loadExistingSegments: the segment-<id> files of the directory, sorted by
\* id, and the next active id
loadExistingSegments(w) == loadIds(w, segmentIds(w.fs))

\* os.OpenFile(path, O_APPEND|O_WRONLY|O_CREATE): the file is created empty
\* when it does not exist
Create(fs0, path) ==
    IF path \in DOMAIN fs0 THEN fs0
    ELSE [p \in DOMAIN fs0 \cup {path} |-> IF p = path THEN <<>> ELSE fs0[p]]

\* the end of openActiveSegment: "db.out = f; db.outOffset = stat.Size()"
openedAt(w, fs1) == [w EXCEPT !.fs = fs1, !.out = "open", !.outOffset = Len(fs1[outPath])]

\* openActiveSegment
openActiveSegment(w) == openedAt(w, Create(w.fs, outPath))

indexed(err, idx) == [err |-> err, index |-> idx]

\* the loop of indexSegmentFile, from reader state rd at record offset
RECURSIVE indexScan(_, _, _, _, _)
\* one turn of the loop, d being what DecodeFromReader returned
indexRecord(d, data, offset, segmentID, idx) ==
    IF d.err = "EOF"
    THEN IF d.n # 0 THEN indexed("corrupted segment file", idx) ELSE indexed("nil", idx)
    ELSE IF d.err # "nil" THEN indexed(d.err, idx)
    ELSE indexScan(data, d.rd, offset + d.n, segmentID,
                   MapSet(idx, d.e.key, indexEntry(segmentID, offset)))

indexScan(data, rd, offset, segmentID, idx) ==
    indexRecord(DecodeFromReader(rd, data), data, offset, segmentID, idx)

\* indexSegmentFile: a file that does not exist is skipped
indexSegmentFile(fs0, filePath, segmentID, idx) ==
    IF filePath \notin DOMAIN fs0 THEN indexed("nil", idx)
    ELSE indexScan(fs0[filePath], NewReader(0), 0, segmentID, idx)

\* the loop of rebuildIndex over allSegments
RECURSIVE indexAll(_, _, _)
indexNext(r, fs0, segs) == IF r.err # "nil" THEN r ELSE indexAll(fs0, Tail(segs), r.index)

indexAll(fs0, segs, idx) ==
    IF segs = <<>> THEN indexed("nil", idx)
    ELSE indexNext(indexSegmentFile(fs0, segs[1].filePath, segs[1].id, idx), fs0, segs)

EmptyIndex == [k \in {} |-> indexEntry(0, 0)]

\* a world and the error of the operation that left it
result(w, err) == [w |-> w, err |-> err]

\* the end of rebuildIndex: the new index replaces the old one only when
\* every file was indexed
rebuilt(w, r) ==
    IF r.err # "nil" THEN result(w, r.err) ELSE result([w EXCEPT !.index = r.index], "nil")

\* the segments rebuildIndex reads: the sealed ones and the active one,
\* ascending by id
allSegments(w) ==
    SortById(w.segments \o
             (IF w.out # "nil"
              THEN <<[id |-> w.activeSegmentID, filePath |-> outPath]>>
              ELSE <<>>))

\* rebuildIndex
rebuildIndex(w) == rebuilt(w, indexAll(w.fs, allSegments(w), EmptyIndex))

\* the fields of a Db that OpenWithMaxSegmentSize has just allocated
NewDb(fs0, maxSegmentSize0) ==
    [fs |-> fs0, index |-> EmptyIndex, maxSegmentSize |-> maxSegmentSize0,
     activeSegmentID |-> 0, segments |-> <<>>, out |-> "nil", outOffset |-> 0,
     mergeChan |-> 0]

\* OpenWithMaxSegmentSize up to the start of the goroutines
OpenWithMaxSegmentSize(fs0, maxSegmentSize0) ==
    rebuildIndex(openActiveSegment(loadExistingSegments(NewDb(fs0, maxSegmentSize0))))

(***************************************************************************)
(* File operations of package os on the directory                          *)
(***************************************************************************)
\* os.Remove(path): removing a file that does not exist changes nothing
Remove(fs0, path) == [p \in DOMAIN fs0 \ {path} |-> fs0[p]]

\* os.Rename(old, new): new is replaced when it exists
Rename(fs0, old, new) ==
    [p \in (DOMAIN fs0 \ {old}) \cup {new} |-> IF p = new THEN fs0[old] ELSE fs0[p]]

\* file.Write(data) on a file opened with O_APPEND
AppendFile(fs0, path, data) == [fs0 EXCEPT ![path] = @ \o data]

\* os.OpenFile(path, O_CREATE|O_WRONLY|O_TRUNC) followed by the writes of data
WriteFile(fs0, path, data) ==
    [p \in DOMAIN fs0 \cup {path} |-> IF p = path THEN data ELSE fs0[p]]

(***************************************************************************)
(* rotateActiveSegment, step by step                                       *)
(***************************************************************************)
\* db.out.Close()
rotateClose(w) == [w EXCEPT !.out = "closed"]

\* os.Rename(current-data, segment-<activeSegmentID>)
rotateRename(w) ==
    [w EXCEPT !.fs = Rename(w.fs, outPath, SegPath(w.activeSegmentID))]

\* a rotation that appends to db.segments and leaves db.activeSegmentID as
\* it is
rotateUpdateSameID(w) ==
    [w EXCEPT !.segments = Append(@, segmentInfo(w.activeSegmentID))]

\* under segmentMu: append to db.segments, db.activeSegmentID++
rotateUpdateSegments(w) ==
    [w EXCEPT !.segments = Append(@, segmentInfo(w.activeSegmentID)),
              !.activeSegmentID = @ + 1]

\* select { case db.mergeChan <- struct{}{}: default: }: mergeChan has capacity 1
rotateNudge(w) == [w EXCEPT !.mergeChan = 1]

rotateActiveSegment(w) ==
    IF w.out = "nil" THEN w
    ELSE rotateNudge(openActiveSegment(rotateUpdateSegments(rotateRename(rotateClose(w)))))

(***************************************************************************)
(* handlePut for a record (not the merge request), step by step            *)
(***************************************************************************)
putRequest(k, v, n, t) == [key |-> k, value |-> v, int64Value |-> n, valueType |-> t]

\* "switch req.valueType"
requestEntry(req) ==
    IF req.valueType = TypeString THEN StringEntry(req.key, req.value)
    ELSE Int64Entry(req.key, req.int64Value)

\* "if db.outOffset >= db.maxSegmentSize"
needsRotation(w) == w.outOffset >= w.maxSegmentSize

\* db.out.Write(data)
putWrite(w, req) == [w EXCEPT !.fs = AppendFile(@, outPath, Encode(requestEntry(req)))]

\* db.index[req.key] = indexEntry{currentActiveID, currentOffset}
putIndex(w, req, currentOffset) ==
    [w EXCEPT !.index = MapSet(@, req.key, indexEntry(w.activeSegmentID, currentOffset))]

\* db.outOffset += int64(n)
putAdvance(w, n) == [w EXCEPT !.outOffset = @ + n]

\* handlePut from "currentOffset := db.outOffset"
putAppend(w, req) ==
    putAdvance(putIndex(putWrite(w, req), req, w.outOffset),
               Len(Encode(requestEntry(req))))

\* handlePut for a record
putRecord(w, req) ==
    putAppend(IF needsRotation(w) THEN rotateActiveSegment(w) ELSE w, req)

\* db.out.Write(data) returns an error after n bytes of data reached the file
shortWrite(w, req, n) ==
    [w EXCEPT !.fs = AppendFile(@, outPath, SubSeq(Encode(requestEntry(req)), 1, n))]

\* "if err != nil { return err }" after the write
writeFailed(w) == [w |-> w, err |-> "write error"]

\* a handlePut that would set the index entry before it looks at the error
\* of the write: FailedWriteKeepsIndex tells it from putShort
putShortIndexed(w, req, n) ==
    writeFailed(putIndex(shortWrite(w, req, n), req, w.outOffset))

\* handlePut for a record whose write fails after n bytes
putShort(w, req, n) ==
    writeFailed(shortWrite(IF needsRotation(w) THEN rotateActiveSegment(w) ELSE w, req, n))

(***************************************************************************)
(* mergeSegments, step by step                                             *)
(***************************************************************************)
collected(err, entries) == [err |-> err, entries |-> entries]

\* the loop over one sealed file: "keyEntries[record.key] = record"
RECURSIVE mergeScan(_, _, _)
\* a loop that would keep the first record of a key, not the latest:
\* MergeResult tells it from mergeRecord
mergeRecordKeepFirst(d, data, entries) ==
    IF d.err = "EOF" THEN collected("nil", entries)
    ELSE IF d.err # "nil" THEN collected(d.err, entries)
    ELSE mergeScan(data, d.rd,
                   IF d.e.key \in DOMAIN entries THEN entries
                   ELSE MapSet(entries, d.e.key, d.e))

mergeRecord(d, data, entries) ==
    IF d.err = "EOF" THEN collected("nil", entries)
    ELSE IF d.err # "nil" THEN collected(d.err, entries)
    ELSE mergeScan(data, d.rd, MapSet(entries, d.e.key, d.e))

mergeScan(data, rd, entries) == mergeRecord(DecodeFromReader(rd, data), data, entries)

\* the loop over segmentsToMerge: a file that does not exist is skipped
RECURSIVE mergeCollect(_, _, _)
mergeNext(r, fs0, segs) ==
    IF r.err # "nil" THEN r ELSE mergeCollect(fs0, Tail(segs), r.entries)

mergeCollect(fs0, segs, entries) ==
    IF segs = <<>> THEN collected("nil", entries)
    ELSE IF segs[1].filePath \notin DOMAIN fs0
    THEN mergeCollect(fs0, Tail(segs), entries)
    ELSE mergeNext(mergeScan(fs0[segs[1].filePath], NewReader(0), entries), fs0, segs)

\* keyEntries of the sealed segments of w
keyEntries(w) == mergeCollect(w.fs, w.segments, [k \in {} |-> ZeroEntry])

\* the orders in which "for _, entryData := range keyEntries" may visit the map
RECURSIVE Orders(_)
Orders(S) ==
    IF S = {} THEN {<<>>}
    ELSE UNION {{<<a>> \o o : o \in Orders(S \ {a})} : a \in S}

RECURSIVE encodeAll(_, _)
encodeAll(entries, order) ==
    IF order = <<>> THEN <<>>
    ELSE Encode(entries[order[1]]) \o encodeAll(entries, Tail(order))

\* temp-merge is created and the records are written to it in the order given
mergeWriteTemp(w, entries, order) ==
    [w EXCEPT !.fs = WriteFile(@, tempPath, encodeAll(entries, order))]

\* os.Remove(seg.filePath) for one segment of the snapshot
mergeRemove(w, seg) == [w EXCEPT !.fs = Remove(@, seg.filePath)]

RECURSIVE mergeRemoveAll(_, _)
mergeRemoveAll(w, segs) ==
    IF segs = <<>> THEN w ELSE mergeRemoveAll(mergeRemove(w, segs[1]), Tail(segs))

\* os.Rename(tempPath, mergedPath)
mergeRename(w, first) == [w EXCEPT !.fs = Rename(@, tempPath, first.filePath)]

\* db.segments = []segmentInfo{{id: segmentsToMerge[0].id, filePath: mergedPath}}
mergeUpdateSegments(w, first) ==
    [w EXCEPT !.segments = <<[id |-> first.id, filePath |-> first.filePath]>>]

\* the end of mergeSegments: the error of rebuildIndex is wrapped
mergeRebuilt(r) ==
    IF r.err # "nil" THEN result(r.w, "failed to rebuild index after merge") ELSE r

\* mergeSegments: "err = db.rebuildIndex()"
mergeRebuild(w) == mergeRebuilt(rebuildIndex(w))

\* mergeSegments from the creation of temp-merge on
mergeReplace(w, segmentsToMerge, entries, order) ==
    mergeRebuild(
        mergeUpdateSegments(
            mergeRename(
                mergeRemoveAll(mergeWriteTemp(w, entries, order), segmentsToMerge),
                segmentsToMerge[1]),
            segmentsToMerge[1]))

\* mergeSegments after the sealed segments were read
mergeCollected(w, ke, order) ==
    IF ke.err # "nil" THEN result(w, ke.err)
    ELSE IF DOMAIN ke.entries = {} THEN result(w, "nil")
    ELSE mergeReplace(w, w.segments, ke.entries, order)

\* mergeSegments: the world it leaves and the error it returns
mergeSegments(w, order) == mergeCollected(w, keyEntries(w), order)

ordersOf(ke) == IF ke.err # "nil" THEN {<<>>} ELSE Orders(DOMAIN ke.entries)

\* the orders mergeSegments may write the records of w in
mergeOrders(w) == ordersOf(keyEntries(w))

\* handlePut: the merge request is recognised by its key
handlePut(w, req, order) ==
    IF req.key = MergeKey THEN mergeSegments(w, order)
    ELSE result(putRecord(w, req), "nil")

(***************************************************************************)
(* Readers                                                                 *)
(***************************************************************************)
\* the file a reader opens for an index entry
readPath(entry, currentActiveID) ==
    IF entry.segmentID = currentActiveID THEN outPath ELSE SegPath(entry.segmentID)

\* os.Open(filePath) and readEntryFromFile(file, offset)
readEntryFromFile(fs0, filePath, offset) ==
    IF filePath \notin DOMAIN fs0
    THEN decoded(0, "no such file", ZeroEntry, 0, 0)
    ELSE DecodeFromReader(NewReader(offset), fs0[filePath])

\* what a reader gets for a key of the index
readEntry(w, key) ==
    readEntryFromFile(w.fs, readPath(w.index[key], w.activeSegmentID), w.index[key].offset)

\* the end of Get: "if record.valueType != TypeString"
getString(record) ==
    IF record.err # "nil" THEN [err |-> record.err, value |-> <<>>]
    ELSE IF record.e.valueType # TypeString
    THEN [err |-> "ErrTypeMismatch", value |-> <<>>]
    ELSE [err |-> "nil", value |-> record.e.stringValue]

\* Db.Get
Get(w, key) ==
    IF key \notin DOMAIN w.index THEN [err |-> "ErrNotFound", value |-> <<>>]
    ELSE getString(readEntry(w, key))

\* the end of GetInt64: "if record.valueType != TypeInt64"
getInt64(record) ==
    IF record.err # "nil" THEN [err |-> record.err, value |-> 0]
    ELSE IF record.e.valueType # TypeInt64
    THEN [err |-> "ErrTypeMismatch", value |-> 0]
    ELSE [err |-> "nil", value |-> record.e.int64Value]

\* Db.GetInt64
GetInt64(w, key) ==
    IF key \notin DOMAIN w.index THEN [err |-> "ErrNotFound", value |-> 0]
    ELSE getInt64(readEntry(w, key))

(***************************************************************************)
(* Bounds of the model and the inputs of the clients                       *)
(***************************************************************************)
\* Put/PutInt64 calls in a run
MaxPuts == 4
\* of which calls with the large string value
MaxBigPuts == 1
\* Close followed by OpenWithMaxSegmentSize, per run
MaxReopens == 1
\* length of the large string value: its record is longer than the buffer
BigLen == 4090
\* the max_segment_size the directory is opened with
SmallSegmentSize == 16
\* the goroutines that call Put or PutInt64 while Close and the merger run
NumClients == 2
\* writes to the active segment that fail, per run
MaxWriteFails == 1
\* records encoded into one stream for the codec on its own
MaxRecords == 2
\* puts on the directory of an earlier session
SeedPuts == 2

BigValue == [i \in 1..BigLen |-> 97]
Keys == {<<>>, <<107>>, MergeKey}
StringValues == {<<118>>, BigValue}
Int64Values == {-2, 42}
MaxSegmentSizes == {SmallSegmentSize}
\* a failing write: the bytes that reached the file before the error (none,
\* half of the size header, or the size header and one byte more)
ShortWrites == {0, 2, 5}
EmptyDir == [p \in {} |-> <<>>]
Clients == 1..NumClients

\* the request each concurrent client makes: PutInt64("", 42), Put("k", "v")
\* or Put("__MERGE__", "v")
ConcRequests ==
    {[key |-> <<>>, value |-> <<>>, int64Value |-> 42, valueType |-> TypeInt64],
     [key |-> <<107>>, value |-> <<118>>, int64Value |-> 0, valueType |-> TypeString],
     [key |-> MergeKey, value |-> <<118>>, int64Value |-> 0, valueType |-> TypeString]}

\* the requests of clients that also write the large value: PutInt64("", 42)
\* or Put("k", the large value)
LargeRequests ==
    {[key |-> <<>>, value |-> <<>>, int64Value |-> 42, valueType |-> TypeInt64],
     [key |-> <<107>>, value |-> BigValue, int64Value |-> 0, valueType |-> TypeString]}

\* the request tryMerge sends
mergeRequest == [key |-> MergeKey, value |-> <<>>, int64Value |-> 0, valueType |-> TypeString]

\* a directory an earlier run left: PutInt64("", 42), PutInt64("", -2),
\* PutInt64("", 42) with max_segment_size 16 leave segment-0, segment-1 and
\* a full current-data
SeedDir ==
    putRecord(
        putRecord(
            putRecord(OpenWithMaxSegmentSize(EmptyDir, SmallSegmentSize).w,
                      [key |-> <<>>, value |-> <<>>, int64Value |-> 42, valueType |-> TypeInt64]),
            [key |-> <<>>, value |-> <<>>, int64Value |-> -2, valueType |-> TypeInt64]),
        [key |-> <<>>, value |-> <<>>, int64Value |-> 42, valueType |-> TypeInt64]).fs

(***************************************************************************)
(* State                                                                   *)
(***************************************************************************)
VARIABLES
    fs,               \* the data directory: path -> bytes of the file
    index,            \* db.index
    maxSegmentSize,   \* db.maxSegmentSize
    activeSegmentID,  \* db.activeSegmentID
    segments,         \* db.segments
    out,              \* db.out: "nil", "open" or "closed"
    outOffset,        \* db.outOffset
    mergeChan,        \* number of signals buffered in db.mergeChan (capacity 1)
    opened,           \* the last Open returned an engine
    putChan,          \* db.putChan: the requests buffered, oldest first
    stopWriter,       \* db.stopWriter is closed
    stopMerge,        \* db.stopMerge is closed
    writer,           \* the writer goroutine: where it is and its locals
    merger,           \* the merger goroutine: where it is
    closer,           \* the goroutine that calls Close: where it is
    clients,          \* the goroutines that call Put: where each is
    lastWrite,        \* history: key -> the entry of the last put to it that was
                      \* acknowledged (Spec) or taken from putChan (SpecConc)
    lastOp,           \* history: the operation that led to this state
    nPuts, nBigPuts, nReopens,
    nWriteFails,      \* history: the writes that failed so far
    codec,            \* the codec on its own: records, their bytes, what is decoded
    reader            \* a goroutine that calls Get or GetInt64: where it is

dbVars == <<fs, index, maxSegmentSize, activeSegmentID, segments, out, outOffset,
            mergeChan>>
histVars == <<lastWrite, lastOp, nPuts, nBigPuts, nReopens, nWriteFails>>
procVars == <<putChan, stopWriter, stopMerge, writer, merger, closer, clients>>
readVars == <<codec, reader>>
vars == <<dbVars, opened, procVars, histVars, readVars>>

\* the world the variables hold
World ==
    [fs |-> fs, index |-> index, maxSegmentSize |-> maxSegmentSize,
     activeSegmentID |-> activeSegmentID, segments |-> segments, out |-> out,
     outOffset |-> outOffset, mergeChan |-> mergeChan]

SetWorld(w) ==
    /\ fs' = w.fs
    /\ index' = w.index
    /\ maxSegmentSize' = w.maxSegmentSize
    /\ activeSegmentID' = w.activeSegmentID
    /\ segments' = w.segments
    /\ out' = w.out
    /\ outOffset' = w.outOffset
    /\ mergeChan' = w.mergeChan

\* the writer goroutine at its select, with no request in hand
WriterIdle ==
    [pc |-> "select", req |-> mergeRequest, from |-> 0, toRemove |-> <<>>, err |-> "nil"]

\* a goroutine that has not called Put yet
ClientIdle == [pc |-> "idle", err |-> "nil", closeSeen |-> FALSE]

\* the state OpenWithMaxSegmentSize leaves when it returns o
Opened(o) ==
    /\ o.err = "nil"
    /\ fs = o.w.fs
    /\ index = o.w.index
    /\ maxSegmentSize = o.w.maxSegmentSize
    /\ activeSegmentID = o.w.activeSegmentID
    /\ segments = o.w.segments
    /\ out = o.w.out
    /\ outOffset = o.w.outOffset
    /\ mergeChan = o.w.mergeChan

\* the codec before any call
CodecIdle == [records |-> <<>>, stream |-> <<>>, rd |-> NewReader(0), results |-> <<>>,
              decoded |-> <<>>]

\* a goroutine that has not called Get or GetInt64 yet
ReaderIdle ==
    [pc |-> "idle", key |-> <<>>, entry |-> indexEntry(0, 0), currentActiveID |-> 0,
     err |-> "nil", record |-> ZeroEntry, during |-> <<"none">>]

\* the state OpenWithMaxSegmentSize(dir, m) returns the engine in, for some
\* directory of dirs: the goroutines are started, Close is not called; puts
\* of the MaxPuts puts are counted as made already
StartedAfter(dirs, puts) ==
    /\ \E dir \in dirs, m \in MaxSegmentSizes : Opened(OpenWithMaxSegmentSize(dir, m))
    /\ opened = TRUE
    /\ putChan = <<>>
    /\ stopWriter = FALSE
    /\ stopMerge = FALSE
    /\ writer = WriterIdle
    /\ merger = "select"
    /\ closer = "idle"
    /\ clients = [c \in Clients |-> ClientIdle]
    /\ lastWrite = [k \in Keys |-> ZeroEntry]
    /\ lastOp = [op |-> "Open", key |-> <<>>, err |-> "nil"]
    /\ nPuts = puts
    /\ nBigPuts = 0
    /\ nReopens = 0
    /\ nWriteFails = 0
    /\ reader = ReaderIdle

Started(dirs) == StartedAfter(dirs, 0)

\* ... and the codec is not exercised on its own
InitOn(dirs) == Started(dirs) /\ codec = CodecIdle

\* OpenWithMaxSegmentSize on an empty directory
Init == InitOn({EmptyDir})

(***************************************************************************)
(* Operations, each awaited: the caller's request, the writer's handling   *)
(* of it and the reply                                                     *)
(***************************************************************************)
\* the writer has handled req with result r and the caller has the reply
PutDone(req, r) ==
    /\ SetWorld(r.w)
    /\ lastWrite' = IF r.err = "nil"
                    THEN [lastWrite EXCEPT ![req.key] = requestEntry(req)]
                    ELSE lastWrite
    /\ lastOp' = [op |-> "Put", key |-> req.key, err |-> r.err]

\* a request goes through putChan to handlePut and its error comes back
DoPut(req, isBig) ==
    /\ opened
    /\ nPuts < MaxPuts
    /\ isBig => nBigPuts < MaxBigPuts
    /\ \/ /\ \E order \in (IF req.key = MergeKey THEN mergeOrders(World) ELSE {<<>>}) :
                PutDone(req, handlePut(World, req, order))
          /\ UNCHANGED nWriteFails
       \/ /\ req.key # MergeKey
          /\ nWriteFails < MaxWriteFails
          /\ \E n \in ShortWrites : PutDone(req, putShort(World, req, n))
          /\ nWriteFails' = nWriteFails + 1
    /\ nPuts' = nPuts + 1
    /\ nBigPuts' = IF isBig THEN nBigPuts + 1 ELSE nBigPuts
    /\ UNCHANGED <<opened, procVars, nReopens, readVars>>

\* Db.Put(key, value)
Put ==
    \E k \in Keys, v \in StringValues :
        DoPut(putRequest(k, v, 0, TypeString), v = BigValue)

\* Db.PutInt64(key, value)
PutInt64 ==
    \E k \in Keys, n \in Int64Values :
        DoPut(putRequest(k, <<>>, n, TypeInt64), FALSE)

\* the merge request of tryMerge has been handled with result r
MergeDone(r) ==
    /\ SetWorld(r.w)
    /\ lastOp' = [op |-> "Merge", key |-> <<>>, err |-> r.err]

\* mergeLoop receives a tick or the signal of a rotation and runs tryMerge:
\* with 3 sealed segments or more the merge request goes to the writer
MergeCycle ==
    /\ opened
    /\ IF Len(segments) < mergeThreshold
       THEN /\ UNCHANGED <<fs, index, maxSegmentSize, activeSegmentID, segments,
                           out, outOffset>>
            /\ mergeChan' = 0
            /\ lastOp' = [op |-> "tryMerge", key |-> <<>>, err |-> "nil"]
       ELSE \E order \in mergeOrders(World) :
               MergeDone(handlePut([World EXCEPT !.mergeChan = 0], mergeRequest, order))
    /\ UNCHANGED <<opened, procVars, lastWrite, nPuts, nBigPuts, nReopens, nWriteFails,
                   readVars>>

\* OpenWithMaxSegmentSize has returned o
Reopened(o) ==
    /\ SetWorld(o.w)
    /\ opened' = (o.err = "nil")
    /\ lastOp' = [op |-> "Reopen", key |-> <<>>, err |-> o.err]

\* Db.Close with no request in flight, then OpenWithMaxSegmentSize on the
\* same directory
Reopen ==
    /\ opened
    /\ nReopens < MaxReopens
    /\ \E m \in MaxSegmentSizes : Reopened(OpenWithMaxSegmentSize(fs, m))
    /\ nReopens' = nReopens + 1
    /\ UNCHANGED <<procVars, lastWrite, nPuts, nBigPuts, nWriteFails, readVars>>

Next == Put \/ PutInt64 \/ MergeCycle \/ Reopen

Spec == Init /\ [][Next]_vars

(***************************************************************************)
(* The codec on its own, as entry_test.go uses it: records are encoded     *)
(* into one stream, a bufio.Reader over the stream is decoded from call by *)
(* call, and the bytes of each record are decoded with entry.Decode.       *)
(***************************************************************************)
\* the records the codec is given
CodecEntries ==
    {StringEntry(k, v) : k \in {<<>>, <<107>>}, v \in {<<>>, <<118>>, BigValue}}
        \cup {Int64Entry(k, n) : k \in {<<>>, <<107>>}, n \in Int64Values}

\* a.Encode() of each record, one after the other
RECURSIVE encodeStream(_)
encodeStream(records) ==
    IF records = <<>> THEN <<>> ELSE Encode(records[1]) \o encodeStream(Tail(records))

\* bufio.NewReader(bytes.NewReader(...)) over the encoded records
CodecStart(records) ==
    [records |-> records, stream |-> encodeStream(records), rd |-> NewReader(0),
     results |-> <<>>, decoded |-> <<>>]

InitCodec ==
    /\ Started({EmptyDir})
    /\ \E n \in 1..MaxRecords : \E records \in [1..n -> CodecEntries] :
          codec = CodecStart(records)

\* the call b.DecodeFromReader(in) has returned d
decodedFromReader(d) ==
    codec' = [codec EXCEPT !.rd = d.rd,
                           !.results = Append(@, [n |-> d.n, err |-> d.err, e |-> d.e])]

\* n, err := b.DecodeFromReader(in), called again as long as err is nil
DecodeNext ==
    /\ Len(codec.results) <= Len(codec.records)
    /\ IF codec.results = <<>> THEN TRUE
       ELSE codec.results[Len(codec.results)].err = "nil"
    /\ decodedFromReader(DecodeFromReader(codec.rd, codec.stream))
    /\ UNCHANGED <<dbVars, opened, procVars, histVars, reader>>

\* b.Decode(a.Encode()) for the next record
DecodeEncoded ==
    /\ Len(codec.decoded) < Len(codec.records)
    /\ codec' = [codec EXCEPT !.decoded =
                     Append(@, Decode(Encode(codec.records[Len(codec.decoded) + 1])))]
    /\ UNCHANGED <<dbVars, opened, procVars, histVars, reader>>

NextCodec == DecodeNext \/ DecodeEncoded

SpecCodec == InitCodec /\ [][NextCodec]_vars

(***************************************************************************)
(* The goroutines, step by step.  A step is what a goroutine does between  *)
(* two points where another goroutine can see or change the shared state:  *)
(* a channel operation, a system call on the directory, a section under    *)
(* segmentMu or indexMu.                                                   *)
(***************************************************************************)
\* the writer is at pc0, leaves the world as w and goes to pc1
WriterStep(pc0, w, pc1) ==
    /\ writer.pc = pc0
    /\ SetWorld(w)
    /\ writer' = [writer EXCEPT !.pc = pc1]
    /\ UNCHANGED <<opened, putChan, stopWriter, stopMerge, merger, closer, clients,
                   histVars, readVars>>

\* Put and PutInt64, "db.putChan <- req": the caller then waits at
\* "<-req.result".  closeSeen records that Close had begun when it sent.
ClientPut(c, requests) ==
    /\ clients[c].pc = "idle"
    /\ Len(putChan) < putChanCap
    /\ \E req \in requests :
          /\ req.value = BigValue => nBigPuts < MaxBigPuts
          /\ putChan' = Append(putChan, [req |-> req, from |-> c])
          /\ nBigPuts' = IF req.value = BigValue THEN nBigPuts + 1 ELSE nBigPuts
    /\ clients' = [clients EXCEPT ![c] = [pc |-> "waiting", err |-> "nil",
                                          closeSeen |-> closer # "idle"]]
    /\ UNCHANGED <<dbVars, opened, stopWriter, stopMerge, writer, merger, closer,
                   lastWrite, lastOp, nPuts, nReopens, nWriteFails, readVars>>

ClientSend(c) == ClientPut(c, ConcRequests)
ClientSendLarge(c) == ClientPut(c, LargeRequests)

\* writerLoop, "case <-db.stopWriter: return"
WriterStop ==
    /\ writer.pc = "select"
    /\ stopWriter
    /\ writer' = [writer EXCEPT !.pc = "stopped"]
    /\ UNCHANGED <<dbVars, opened, putChan, stopWriter, stopMerge, merger, closer,
                   clients, histVars, readVars>>

\* where handlePut goes first with req
handlePutEntry(w, req) ==
    IF req.key = MergeKey THEN "mergeRead"
    ELSE IF needsRotation(w) /\ w.out # "nil" THEN "rotClose"
    ELSE "write"

\* writerLoop, "case req := <-db.putChan" and the first tests of handlePut
WriterRecv ==
    /\ writer.pc = "select"
    /\ putChan # <<>>
    /\ putChan' = Tail(putChan)
    /\ writer' = [pc |-> handlePutEntry(World, Head(putChan).req),
                  req |-> Head(putChan).req, from |-> Head(putChan).from,
                  toRemove |-> <<>>, err |-> "nil"]
    /\ lastWrite' = IF Head(putChan).from = 0 THEN lastWrite
                    ELSE [lastWrite EXCEPT ![Head(putChan).req.key] =
                                               requestEntry(Head(putChan).req)]
    /\ UNCHANGED <<dbVars, opened, stopWriter, stopMerge, merger, closer, clients,
                   lastOp, nPuts, nBigPuts, nReopens, nWriteFails, readVars>>

\* rotateActiveSegment, one step each
RotClose == WriterStep("rotClose", rotateClose(World), "rotRename")
RotRename == WriterStep("rotRename", rotateRename(World), "rotUpdate")
RotUpdate == WriterStep("rotUpdate", rotateUpdateSegments(World), "rotOpen")
RotOpen == WriterStep("rotOpen", openActiveSegment(World), "rotNudge")
RotNudge == WriterStep("rotNudge", rotateNudge(World), "write")

\* handlePut: db.out.Write(data)
PutWrite == WriterStep("write", putWrite(World, writer.req), "index")
\* handlePut: the index update under indexMu
PutIndex == WriterStep("index", putIndex(World, writer.req, outOffset), "advance")
\* handlePut: db.outOffset += int64(n); return nil
PutAdvance ==
    WriterStep("advance", putAdvance(World, Len(Encode(requestEntry(writer.req)))), "reply")

\* mergeSegments has read the sealed segments into ke
MergeRead(ke) ==
    /\ writer.pc = "mergeRead"
    /\ IF ke.err # "nil" \/ DOMAIN ke.entries = {}
       THEN /\ writer' = [writer EXCEPT !.pc = "reply", !.err = ke.err]
            /\ UNCHANGED dbVars
       ELSE /\ \E order \in Orders(DOMAIN ke.entries) :
                   SetWorld(mergeWriteTemp(World, ke.entries, order))
            /\ writer' = [writer EXCEPT !.pc = "mergeRemove", !.toRemove = segments]
    /\ UNCHANGED <<opened, putChan, stopWriter, stopMerge, merger, closer, clients,
                   histVars, readVars>>

\* mergeSegments up to tempFile.Close()
MergeCollect == MergeRead(keyEntries(World))

\* mergeSegments: os.Remove of one segment of the snapshot
MergeRemove ==
    /\ writer.pc = "mergeRemove"
    /\ SetWorld(mergeRemove(World, Head(writer.toRemove)))
    /\ writer' = [writer EXCEPT !.toRemove = Tail(@),
                                !.pc = IF Tail(writer.toRemove) = <<>>
                                       THEN "mergeRename" ELSE "mergeRemove"]
    /\ UNCHANGED <<opened, putChan, stopWriter, stopMerge, merger, closer, clients,
                   histVars, readVars>>

\* mergeSegments: os.Rename(tempPath, mergedPath)
MergeRename == WriterStep("mergeRename", mergeRename(World, segments[1]), "mergeUpdate")
\* mergeSegments: db.segments is replaced under segmentMu
MergeUpdate ==
    WriterStep("mergeUpdate", mergeUpdateSegments(World, segments[1]), "mergeRebuild")

\* rebuildIndex has returned r
MergeRebuilt(r) ==
    /\ writer.pc = "mergeRebuild"
    /\ SetWorld(r.w)
    /\ writer' = [writer EXCEPT !.pc = "reply", !.err = r.err]
    /\ UNCHANGED <<opened, putChan, stopWriter, stopMerge, merger, closer, clients,
                   histVars, readVars>>

\* mergeSegments: db.rebuildIndex()
MergeRebuild == MergeRebuilt(mergeRebuild(World))

\* writerLoop, "req.result <- err": the sender of the request is waiting at
\* "<-req.result" and returns with the error
WriterReply ==
    /\ writer.pc = "reply"
    /\ writer' = [writer EXCEPT !.pc = "select"]
    /\ IF writer.from = 0
       THEN /\ merger' = "select"
            /\ UNCHANGED clients
       ELSE /\ clients' = [clients EXCEPT ![writer.from].pc = "returned",
                                          ![writer.from].err = writer.err]
            /\ UNCHANGED merger
    /\ UNCHANGED <<dbVars, opened, putChan, stopWriter, stopMerge, closer, histVars, readVars>>

\* the steps of the writer that read no segment file
WriterShort ==
    \/ WriterStop \/ WriterRecv
    \/ RotClose \/ RotRename \/ RotUpdate \/ RotOpen \/ RotNudge
    \/ PutWrite \/ PutIndex \/ PutAdvance
    \/ MergeRemove \/ MergeRename \/ MergeUpdate
    \/ WriterReply

Writer == WriterShort \/ MergeCollect \/ MergeRebuild

\* mergeLoop, "case <-db.stopMerge: return"
MergerStop ==
    /\ merger = "select"
    /\ stopMerge
    /\ merger' = "stopped"
    /\ UNCHANGED <<dbVars, opened, putChan, stopWriter, stopMerge, writer, closer,
                   clients, histVars, readVars>>

\* mergeLoop, "case <-ticker.C: db.tryMerge()"
MergerTick ==
    /\ merger = "select"
    /\ merger' = "tryMerge"
    /\ UNCHANGED <<dbVars, opened, putChan, stopWriter, stopMerge, writer, closer,
                   clients, histVars, readVars>>

\* mergeLoop, "case <-db.mergeChan: db.tryMerge()"
MergerSignal ==
    /\ merger = "select"
    /\ mergeChan = 1
    /\ mergeChan' = 0
    /\ merger' = "tryMerge"
    /\ UNCHANGED <<fs, index, maxSegmentSize, activeSegmentID, segments, out, outOffset,
                   opened, putChan, stopWriter, stopMerge, writer, closer, clients,
                   histVars, readVars>>

\* tryMerge: the count of sealed segments read under segmentMu
MergerCheck ==
    /\ merger = "tryMerge"
    /\ merger' = IF Len(segments) < mergeThreshold THEN "select" ELSE "send"
    /\ UNCHANGED <<dbVars, opened, putChan, stopWriter, stopMerge, writer, closer,
                   clients, histVars, readVars>>

\* tryMerge, "select { case db.putChan <- req: err := <-req.result; default: }"
MergerSend ==
    /\ merger = "send"
    /\ IF Len(putChan) < putChanCap
       THEN /\ putChan' = Append(putChan, [req |-> mergeRequest, from |-> 0])
            /\ merger' = "await"
       ELSE /\ merger' = "select"
            /\ UNCHANGED putChan
    /\ UNCHANGED <<dbVars, opened, stopWriter, stopMerge, writer, closer, clients,
                   histVars, readVars>>

Merger == MergerStop \/ MergerTick \/ MergerSignal \/ MergerCheck \/ MergerSend

\* the clients whose request is in putChan
Queued == {putChan[i].from : i \in 1..Len(putChan)}

\* Close, "close(db.stopWriter)": Close has begun
CloseBegin ==
    /\ closer = "idle"
    /\ stopWriter' = TRUE
    /\ closer' = "waitWriter"
    /\ clients' = [c \in Clients |->
                      IF c \in Queued THEN [clients[c] EXCEPT !.closeSeen = TRUE]
                      ELSE clients[c]]
    /\ UNCHANGED <<dbVars, opened, putChan, stopMerge, writer, merger, histVars, readVars>>

\* Close, "db.writerWG.Wait(); close(db.stopMerge)"
CloseWriterDone ==
    /\ closer = "waitWriter"
    /\ writer.pc = "stopped"
    /\ stopMerge' = TRUE
    /\ closer' = "waitMerge"
    /\ UNCHANGED <<dbVars, opened, putChan, stopWriter, writer, merger, clients,
                   histVars, readVars>>

\* Close, "db.mergeWG.Wait(); return db.out.Close()"
CloseMergeDone ==
    /\ closer = "waitMerge"
    /\ merger = "stopped"
    /\ out' = "closed"
    /\ closer' = "done"
    /\ UNCHANGED <<fs, index, maxSegmentSize, activeSegmentID, segments, outOffset,
                   mergeChan, opened, putChan, stopWriter, stopMerge, writer, merger,
                   clients, histVars, readVars>>

Close == CloseBegin \/ CloseWriterDone \/ CloseMergeDone

\* an engine opened on an empty directory or on the directory of an earlier run
InitConc == InitOn({EmptyDir, SeedDir})

NextConc == (\E c \in Clients : ClientSend(c)) \/ Writer \/ Merger \/ Close

\* Every goroutine that can take a step eventually takes one, and a select
\* that finds its stop channel closed again and again eventually takes that
\* case (select chooses at random among the cases that are ready).  The two
\* steps of the writer that read the segment files are enabled exactly when
\* the writer is at them, and they end: the writer does not stay there.
Fairness ==
    /\ \A c \in Clients : WF_vars(ClientSend(c))
    /\ WF_vars(WriterShort)
    /\ SF_vars(WriterStop)
    /\ []<>(writer.pc \notin {"mergeRead", "mergeRebuild"})
    /\ WF_vars(Merger)
    /\ SF_vars(MergerStop)
    /\ WF_vars(Close)

SpecConc == InitConc /\ [][NextConc]_vars /\ Fairness

\* The same goroutines with clients that also write the large value, in a
\* run where Close need not be called: the caller of Close is under no
\* obligation to take a step.
NextLarge == (\E c \in Clients : ClientSendLarge(c)) \/ Writer \/ Merger \/ Close

FairnessLarge ==
    /\ \A c \in Clients : WF_vars(ClientSendLarge(c))
    /\ WF_vars(WriterShort)
    /\ SF_vars(WriterStop)
    /\ []<>(writer.pc \notin {"mergeRead", "mergeRebuild"})
    /\ WF_vars(Merger)
    /\ SF_vars(MergerStop)

SpecLarge == InitConc /\ [][NextLarge]_vars /\ FairnessLarge

(***************************************************************************)
(* A goroutine that calls Get or GetInt64 while the others run.  Its steps *)
(* are the two sections under a read lock and the reading of the file;     *)
(* os.Open, Seek and DecodeFromReader are taken as one step, at the moment *)
(* of the open.  reader.during records what the writer was doing at each   *)
(* step of the call: one put, a merge, nothing, or not the same throughout.*)
(***************************************************************************)
\* the keys the reader asks for
ReadKeys == {<<>>, <<107>>}

\* where the writer is inside handlePut for a record, and inside mergeSegments
PutPcs == {"rotClose", "rotRename", "rotUpdate", "rotOpen", "rotNudge", "write", "index",
           "advance"}
MergePcs == {"mergeRead", "mergeRemove", "mergeRename", "mergeUpdate", "mergeRebuild"}

\* what the writer is doing now
writerDoing ==
    IF writer.pc \in MergePcs THEN <<"merge">>
    ELSE IF writer.pc \in PutPcs THEN <<"put", writer.from, writer.req.key>>
    ELSE <<"idle">>

\* the reader takes a step: it goes to pc1 with the fields of r
ReaderStep(pc0, r, pc1) ==
    /\ reader.pc = pc0
    /\ reader' = [r EXCEPT !.pc = pc1,
                           !.during = IF pc0 = "idle" \/ writerDoing = reader.during
                                      THEN writerDoing ELSE <<"mixed">>]
    /\ UNCHANGED <<dbVars, opened, procVars, histVars, codec>>

\* Get, GetInt64: "indexEntry, ok := db.index[key]" under indexMu
GetIndex ==
    \E key \in ReadKeys :
        IF key \in DOMAIN index
        THEN ReaderStep("idle", [reader EXCEPT !.key = key, !.entry = index[key]],
                        "activeID")
        ELSE ReaderStep("idle", [reader EXCEPT !.key = key, !.err = "ErrNotFound"], "done")

\* "currentActiveID := db.activeSegmentID" under segmentMu
GetActiveID ==
    ReaderStep("activeID", [reader EXCEPT !.currentActiveID = activeSegmentID], "open")

\* the record and the error readEntryFromFile has returned as d
readDone(d) == [reader EXCEPT !.err = d.err, !.record = d.e]

\* os.Open(filePath) and db.readEntryFromFile(file, indexEntry.offset)
GetRead ==
    ReaderStep("open",
               readDone(readEntryFromFile(fs, readPath(reader.entry, reader.currentActiveID),
                                          reader.entry.offset)),
               "done")

Reader == GetIndex \/ GetActiveID \/ GetRead

NextRead == NextConc \/ Reader

SpecRead == InitConc /\ [][NextRead]_vars

(***************************************************************************)
(* What a caller observes                                                  *)
(***************************************************************************)
\* the outcome of Get and of GetInt64 for every key
Results(w) == [k \in Keys |-> <<Get(w, k), GetInt64(w, k)>>]

\* the accessor of the type of entry e returns the value of e for key k
ReturnsValue(w, k, e) ==
    IF e.valueType = TypeInt64
    THEN GetInt64(w, k) = [err |-> "nil", value |-> e.int64Value]
    ELSE Get(w, k) = [err |-> "nil", value |-> e.stringValue]

\* the accessor of the other type than that of entry e returns ErrTypeMismatch
OtherTypeMismatch(w, k, e) ==
    IF e.valueType = TypeInt64
    THEN Get(w, k).err = "ErrTypeMismatch"
    ELSE GetInt64(w, k).err = "ErrTypeMismatch"

\* the encoded size of the last record of a file, walked by the size headers
\* up to its end or to bytes that are no size header
RECURSIVE lastRecordSize(_, _, _)
lastRecordSize(data, offset, last) ==
    IF offset + 4 > Len(data) THEN last
    ELSE IF U32Large(data, offset) \/ U32Val(data, offset) < 9 THEN last
    ELSE lastRecordSize(data, offset + U32Val(data, offset), U32Val(data, offset))

(***************************************************************************)
(* Properties stated by the specification                                  *)
(***************************************************************************)
\* C1 (round-trip): in the state a Put(k, v) or PutInt64(k, v) that returned
\* without error leaves, for every key k, Get(k) or GetInt64(k) returns
\* exactly v.
RoundTrip ==
    (lastOp.op = "Put" /\ lastOp.err = "nil")
        => ReturnsValue(World, lastOp.key, lastWrite[lastOp.key])

\* C2 (last-write-wins): in every state reached by awaited puts, rotations,
\* merges and reopen, every key that was written returns the value of its
\* final acknowledged write from the accessor of that write's type.
LastWriteWins ==
    \A k \in Keys :
        lastWrite[k].valueType # 0 => ReturnsValue(World, k, lastWrite[k])

\* C3 (persistence): Close followed by OpenWithMaxSegmentSize on the same
\* directory yields an engine, and in it Get and GetInt64 return for every
\* key what they returned before Close.
Persistence ==
    [][lastOp'.op = "Reopen" => (opened' /\ Results(World') = Results(World))]_vars

\* C4 (merge preserves semantics): a run of the merge procedure started by
\* tryMerge changes the outcome of Get and of GetInt64 for no key.
MergePreserves ==
    [][lastOp'.op = "Merge" => Results(World') = Results(World)]_vars

\* C5 (index validity, I1): in every state of the running engine, every key
\* of the index refers to a file that exists and to an offset where a
\* complete record with that key decodes.
IndexValid ==
    \A k \in DOMAIN index :
        /\ readEntry(World, k).err = "nil"
        /\ readEntry(World, k).e.key = k

\* C6 (shutdown of mutations): a Put that waits for its reply and was sent
\* after Close began, or was queued when Close began, eventually returns
\* with the Shutdown error.
ShutdownReported ==
    \A c \in Clients :
        (clients[c].pc = "waiting" /\ clients[c].closeSeen)
            ~> (clients[c].pc = "returned" /\ clients[c].err = "Shutdown")

\* C7 (Close terminates): once Close has begun it eventually returns, with
\* the writer and the merger stopped.
CloseTerminates ==
    (closer # "idle")
        ~> (closer = "done" /\ writer.pc = "stopped" /\ merger = "stopped")

\* C8 (segment integrity, I3/P6): in every state the file current-data
\* exists and every id of the sealed list is less than the active id.
SegmentIntegrity ==
    /\ outPath \in DOMAIN fs
    /\ \A i \in 1..Len(segments) : segments[i].id < activeSegmentID

\* C9 (segment size bound, I6): in every state every file of the directory
\* is shorter than max_segment_size plus the size of its last record.
SegmentSizeBound ==
    \A path \in DOMAIN fs :
        Len(fs[path]) < maxSegmentSize + lastRecordSize(fs[path], 0, 0)

\* C10 (type safety): in every state, for every key that was written, the
\* accessor of the type of its latest write returns the value written and
\* the accessor of the other type returns TypeMismatch.
TypeSafety ==
    \A k \in Keys :
        lastWrite[k].valueType # 0
            => /\ OtherTypeMismatch(World, k, lastWrite[k])
               /\ ReturnsValue(World, k, lastWrite[k])

\* C11 (NotFound): in every state of an open engine, a key no acknowledged
\* put has written returns NotFound from Get and from GetInt64, and a key an
\* acknowledged put has written returns NotFound from neither.
NotFoundExact ==
    opened =>
        \A k \in Keys :
            IF lastWrite[k].valueType = 0
            THEN Get(World, k).err = "ErrNotFound" /\ GetInt64(World, k).err = "ErrNotFound"
            ELSE Get(World, k).err # "ErrNotFound" /\ GetInt64(World, k).err # "ErrNotFound"

\* the index entry of key k, or "none"
IndexOf(idx, k) == IF k \in DOMAIN idx THEN idx[k] ELSE "none"

\* C12 (independence): an acknowledged Put or PutInt64 to key k leaves, for
\* every other key, the index entry and the outcome of Get and of GetInt64
\* as they were.
Independence ==
    [][(lastOp'.op = "Put" /\ lastOp'.err = "nil")
        => \A k \in Keys \ {lastOp'.key} :
              /\ IndexOf(index', k) = IndexOf(index, k)
              /\ Results(World')[k] = Results(World)[k]]_vars

\* C13 (failed write): when the append to the active segment fails or is
\* short, Put returns an error and the index is the one before the request.
FailedWriteKeepsIndex ==
    [][nWriteFails' > nWriteFails
        => /\ lastOp'.op = "Put"
           /\ lastOp'.err # "nil"
           /\ index' = index]_vars

\* C13, reached: a write has failed after its first 5 bytes were appended to
\* an active segment that held a record already, whose key is in the index
FailedWriteSeen ==
    /\ nWriteFails > 0
    /\ lastOp.op = "Put" /\ lastOp.err = "write error"
    /\ index # EmptyIndex
    /\ outPath \in DOMAIN fs
    /\ Len(fs[outPath]) = outOffset + 5

\* C14 (acknowledgement after application): when the writer is about to
\* send nil to a caller of Put or PutInt64, the record of the request is in
\* the directory and the index entry of its key points at it: a Get or
\* GetInt64 of the key returns the value of the request.
AckAfterApply ==
    (writer.pc = "reply" /\ writer.from # 0 /\ writer.err = "nil")
        => ReturnsValue(World, writer.req.key, requestEntry(writer.req))

\* every client has its reply, nil, and the writer holds no request
AllAcknowledged ==
    /\ \A c \in Clients : clients[c].pc = "returned" /\ clients[c].err = "nil"
    /\ writer.pc = "select"
    /\ putChan = <<>>

\* C15 (total write order): once every put of the concurrent clients is
\* acknowledged, each key returns the value of the request for it that the
\* writer took from the queue last.
TotalWriteOrder ==
    AllAcknowledged
        => \A k \in Keys :
              lastWrite[k].valueType # 0 => ReturnsValue(World, k, lastWrite[k])

\* C20 (merge only for the merger): whenever the writer starts the merge
\* procedure, the request came from the merger and the sealed list holds at
\* least 3 segments.
MergeOnlyForMerger ==
    writer.pc = "mergeRead"
        => writer.from = 0 /\ Len(segments) >= mergeThreshold

\* the records a segment file holds from offset off on, front to back: each
\* is as long as its size header says and is decoded by entry.Decode
RECURSIVE fileRecords(_, _)
fileRecords(data, off) ==
    IF off + 4 > Len(data) THEN <<>>
    ELSE IF U32Large(data, off) \/ U32Val(data, off) < 9
            \/ off + U32Val(data, off) > Len(data)
    THEN <<>>
    ELSE <<Decode(SubSeq(data, off + 1, off + U32Val(data, off))).e>>
         \o fileRecords(data, off + U32Val(data, off))

\* the records of the segments segs, walked in the order of the list and
\* front to back
RECURSIVE snapshotRecords(_, _)
snapshotRecords(fs0, segs) ==
    IF segs = <<>> THEN <<>>
    ELSE (IF segs[1].filePath \in DOMAIN fs0 THEN fileRecords(fs0[segs[1].filePath], 0)
          ELSE <<>>)
         \o snapshotRecords(fs0, Tail(segs))

\* the record of key k that occurs last in recs
latestOf(recs, k) ==
    recs[SetMax({i \in 1..Len(recs) : recs[i].key = k})]

\* the sum of the encoded lengths of recs
RECURSIVE encodedLen(_)
encodedLen(recs) ==
    IF recs = <<>> THEN 0 ELSE Len(Encode(recs[1])) + encodedLen(Tail(recs))

\* merged is one record per key of snap, the one occurring last, and nothing
\* else is in the file of size bytes
OnePerKey(merged, snap, size) ==
    /\ {merged[j].key : j \in 1..Len(merged)} = {snap[i].key : i \in 1..Len(snap)}
    /\ \A j \in 1..Len(merged) :
          /\ merged[j] = latestOf(snap, merged[j].key)
          /\ \A i \in 1..Len(merged) : merged[i].key = merged[j].key => i = j
    /\ size = encodedLen(merged)

\* the directory fs1 and the sealed list segs1 after a merge of the snapshot
\* segs0 of the directory fs0
MergedFrom(fs0, segs0, fs1, segs1) ==
    /\ segs1 = <<segs0[1]>>
    /\ \A i \in 1..Len(segs0) : segs0[i].id >= segs0[1].id
    /\ \A i \in 2..Len(segs0) : segs0[i].filePath \notin DOMAIN fs1
    /\ segs0[1].filePath \in DOMAIN fs1
    /\ OnePerKey(fileRecords(fs1[segs0[1].filePath], 0), snapshotRecords(fs0, segs0),
                 Len(fs1[segs0[1].filePath]))

\* the step is a run of mergeSegments that returned nil
MergeSucceeded ==
    /\ lastOp'.op = "Merge" \/ (lastOp'.op = "Put" /\ lastOp'.key = MergeKey)
    /\ lastOp'.err = "nil"

\* C19 (merge result): after a successful merge of a snapshot of sealed
\* segments the sealed list is the one segment with the lowest id of the
\* snapshot, the other files of the snapshot are gone, and the merged file
\* holds exactly one record per key of the snapshot, the one occurring last
\* in the walk of the snapshot.
MergeResult ==
    [][(MergeSucceeded /\ segments # <<>>)
        => MergedFrom(fs, segments, fs', segments')]_vars

\* C19, reached: a merge of 3 sealed segments or more, which held two keys and
\* more records than keys, has returned nil
MergeResultSeen ==
    /\ lastOp.op = "Merge" /\ lastOp.err = "nil"
    /\ Len(segments) = 1
    /\ Len(fileRecords(fs[segments[1].filePath], 0)) = 2

\* C16 (codec round trip): Decode of the bytes Encode gives for a record
\* yields the record; successive DecodeFromReader calls over a stream of
\* encoded records return each record in order, with the length of its
\* encoding as the bytes consumed, and then io.EOF with 0 bytes.
CodecRoundTrip ==
    /\ \A i \in 1..Len(codec.decoded) : codec.decoded[i] = DecodeOk(codec.records[i])
    /\ \A i \in 1..Len(codec.results) :
          IF i <= Len(codec.records)
          THEN codec.results[i] = [n |-> Len(Encode(codec.records[i])), err |-> "nil",
                                   e |-> codec.records[i]]
          ELSE codec.results[i].n = 0 /\ codec.results[i].err = "EOF"

\* the reader has read a record without error and it is a record of its key
ReadOk == reader.err = "nil" /\ reader.record.key = reader.key

\* C17 (reader and rotation): a Get or GetInt64 of a key of the index, all of
\* whose steps fall into the writer's handling of one put to another key
\* (its rotation and its append included), returns a record of its key and
\* no error.
ReaderVsRotation ==
    (/\ reader.pc = "done"
     /\ reader.err # "ErrNotFound"
     /\ reader.during[1] = "put"
     /\ reader.during[3] # reader.key)
        => ReadOk

\* C18 (reader and merge): a Get or GetInt64 of a key of the index, all of
\* whose steps fall into a merge the writer is executing, returns a record
\* of its key and no error.
ReaderVsMerge ==
    (/\ reader.pc = "done"
     /\ reader.err # "ErrNotFound"
     /\ reader.during = <<"merge">>)
        => ReadOk

\* the step is a run of mergeSegments that returned an error
MergeFailed ==
    /\ lastOp'.op = "Merge" \/ (lastOp'.op = "Put" /\ lastOp'.key = MergeKey)
    /\ lastOp'.err # "nil"

\* C21 (merge failure policy): a merge that returns an error leaves no
\* temp-merge, and the files of the directory, the sealed list and the index
\* are those before the merge, so every Get and GetInt64 result is unchanged.
MergeFailureKeepsState ==
    [][MergeFailed
        => /\ tempPath \notin DOMAIN fs'
           /\ fs' = fs
           /\ segments' = segments
           /\ index' = index
           /\ Results(World') = Results(World)]_vars

\* the state after a rotating put of the entry e to key k, against the state
\* before it
RotatedPut(k, e) ==
    /\ activeSegmentID' = activeSegmentID + 1
    /\ segments' = Append(segments, segmentInfo(activeSegmentID))
    /\ SegPath(activeSegmentID) \in DOMAIN fs'
    /\ fs'[SegPath(activeSegmentID)] = fs[outPath]
    /\ fs'[outPath] = Encode(e)
    /\ IndexOf(index', k) = indexEntry(activeSegmentID + 1, 0)
    /\ outOffset' = Len(Encode(e))
    /\ \A other \in Keys \ {k} :
          /\ IndexOf(index', other) = IndexOf(index, other)
          /\ Results(World')[other] = Results(World)[other]

\* C22 (rotation step): an acknowledged put that finds out-offset >=
\* max_segment_size rotates before it writes: the old current-data is the
\* sealed segment of the old active id, last in the sealed list, the active
\* id has grown by 1, the record is alone in a fresh current-data at offset
\* 0, out-offset is its size, and the other keys are as before.
RotationStep ==
    [][(lastOp'.op = "Put" /\ lastOp'.err = "nil" /\ outOffset >= maxSegmentSize)
        => RotatedPut(lastOp'.key, lastWrite'[lastOp'.key])]_vars

\* C23 (merger liveness): while Close is not called, once the sealed list
\* holds at least 3 segments a merge is eventually executed and the list
\* shrinks to one segment, and every put that waits for its reply is
\* eventually acknowledged.
MergerLiveness ==
    /\ (Len(segments) >= mergeThreshold /\ ~stopWriter)
          ~> (Len(segments) = 1 \/ stopWriter)
    /\ \A c \in Clients :
          (clients[c].pc = "waiting" /\ ~stopWriter)
              ~> (clients[c].pc = "returned" \/ stopWriter)

\* where the records of a segment file with id id start, front to back, with
\* their keys
RECURSIVE recordStarts(_, _, _)
recordStarts(data, off, id) ==
    IF off + 4 > Len(data) THEN <<>>
    ELSE IF U32Large(data, off) \/ U32Val(data, off) < 9
            \/ off + U32Val(data, off) > Len(data)
    THEN <<>>
    ELSE <<[key |-> Decode(SubSeq(data, off + 1, off + U32Val(data, off))).e.key,
            segmentID |-> id, offset |-> off]>>
         \o recordStarts(data, off + U32Val(data, off), id)

\* the same for the sealed segments segs, in the order of the list
RECURSIVE sealedStarts(_, _)
sealedStarts(fs0, segs) ==
    IF segs = <<>> THEN <<>>
    ELSE (IF segs[1].filePath \in DOMAIN fs0
          THEN recordStarts(fs0[segs[1].filePath], 0, segs[1].id) ELSE <<>>)
         \o sealedStarts(fs0, Tail(segs))

\* the index that points every key of starts at its last record in starts
IndexOfStarts(starts) ==
    [k \in {starts[i].key : i \in 1..Len(starts)} |->
        indexEntry(starts[SetMax({i \in 1..Len(starts) : starts[i].key = k})].segmentID,
                   starts[SetMax({i \in 1..Len(starts) : starts[i].key = k})].offset)]

\* the index of the records in the files of the directory: the sealed
\* segments in ascending order of id, then current-data as the active one
IndexOfFiles ==
    IndexOfStarts(sealedStarts(fs, segments)
                  \o (IF outPath \in DOMAIN fs
                      THEN recordStarts(fs[outPath], 0, activeSegmentID) ELSE <<>>))

\* data from off on is a sequence of whole records and nothing else
RECURSIVE wholeRecords(_, _)
wholeRecords(data, off) ==
    IF off = Len(data) THEN TRUE
    ELSE IF off + 4 > Len(data) THEN FALSE
    ELSE IF U32Large(data, off) \/ U32Val(data, off) < 9
            \/ off + U32Val(data, off) > Len(data)
    THEN FALSE
    ELSE wholeRecords(data, off + U32Val(data, off))

\* every segment file of the directory is a sequence of whole records
WholeFiles ==
    \A p \in DOMAIN fs : wholeRecords(fs[p], 0)

\* C24 (index rebuild, I2): the index OpenWithMaxSegmentSize builds from a
\* directory whose files hold whole records maps each key to the last record
\* of the key in the segment of the highest id that holds one, current-data
\* counting as highest: every record of every file is visited, whatever the
\* length of the file and the sizes of the records.
IndexRebuild ==
    (lastOp.op = "Reopen" /\ WholeFiles) => (opened /\ index = IndexOfFiles)

\* C25 (torn tail fatal at open): when a segment file of the directory ends
\* with a proper prefix of a record, of any length from 1 byte on, or holds a
\* corrupted record, the index build fails and OpenWithMaxSegmentSize
\* returns an error.
TornTailFatal ==
    (lastOp.op = "Reopen" /\ ~WholeFiles) => (~opened /\ lastOp.err # "nil")

(***************************************************************************)
(* entry.Decode on its own: one call on an arbitrary byte slice            *)
(***************************************************************************)
\* the length fields a slice may declare: 0, 1, 2, 2^30, 2^32-10, 2^32-9,
\* 2^32-4 and 2^32-1
LengthFields ==
    {<<0, 0, 0, 0>>, <<1, 0, 0, 0>>, <<2, 0, 0, 0>>, <<0, 0, 0, 64>>,
     <<246, 255, 255, 255>>, <<247, 255, 255, 255>>, <<252, 255, 255, 255>>,
     <<255, 255, 255, 255>>}

\* what follows the key length in a slice: nothing, key bytes, a type byte
\* (string, int64 or unknown) and value data with a declared string length
DecodeBodies ==
    {<<>>, <<TypeString>>, <<107, TypeString>>, <<107, 107, TypeInt64>>,
     <<TypeInt64, 42, 0, 0, 0, 0, 0, 0, 0>>, <<107, TypeInt64, 42, 0, 0, 0, 0, 0, 0, 0>>}
    \cup {pre \o <<t>> \o sl \o post :
            pre \in {<<>>, <<107>>}, t \in {TypeString, 7}, sl \in LengthFields,
            post \in {<<>>, <<118>>, <<118, 118>>}}

\* the slices given to entry.Decode
DecodeInputs ==
    {U32LE(8 + Len(body)) \o kl \o body : kl \in LengthFields, body \in DecodeBodies}

InitDecode ==
    /\ Started({EmptyDir})
    /\ \E input \in DecodeInputs : codec = [CodecIdle EXCEPT !.stream = input]

\* err := e.Decode(input)
DecodeInput ==
    /\ codec.decoded = <<>>
    /\ codec' = [codec EXCEPT !.decoded = <<Decode(codec.stream)>>]
    /\ UNCHANGED <<dbVars, opened, procVars, histVars, reader>>

NextDecode == DecodeInput

SpecDecode == InitDecode /\ [][NextDecode]_vars

\* C26 (decode bounds checking): for every slice and every declared key
\* length and string length, entry.Decode returns an error or a record whose
\* key and value lie inside the slice; it never reads outside the slice and
\* never aborts.
DecodeBounds ==
    \A i \in 1..Len(codec.decoded) :
        /\ codec.decoded[i].err # "panic"
        /\ codec.decoded[i].err = "nil" =>
              8 + Len(codec.decoded[i].e.key) + 1 + Len(codec.decoded[i].e.stringValue)
                 <= Len(codec.stream)

\* the sequential operations on a directory that an earlier session left
\* with two sealed segments and a full current-data, with SeedPuts puts to
\* come
InitSeed == StartedAfter({SeedDir}, MaxPuts - SeedPuts) /\ codec = CodecIdle

SpecSeed == InitSeed /\ [][Next]_vars

\* the ids of the segment-<id> files in the directory
SealedIds == {p[2] : p \in {q \in DOMAIN fs : Len(q) = 2 /\ q[1] = segmentFilePrefix}}

\* the keys of the records of current-data
ActiveKeys ==
    IF outPath \in DOMAIN fs
    THEN {recordStarts(fs[outPath], 0, 0)[i].key :
             i \in 1..Len(recordStarts(fs[outPath], 0, 0))}
    ELSE {}

\* C27 (next active id at open): after a successful open the active id is
\* the highest id of the segment files plus one, or 0 when there is none,
\* also when an earlier session merged, and every index entry built
\* for a key of current-data carries that id.
NextActiveID ==
    (lastOp.op = "Reopen" /\ opened) =>
        /\ activeSegmentID = IF SealedIds = {} THEN 0 ELSE SetMax(SealedIds) + 1
        /\ \A k \in ActiveKeys :
              k \in DOMAIN index /\ index[k].segmentID = activeSegmentID

\* a directory that a merge left with a gap in the ids was opened, with
\* records in current-data
NextActiveIDSeen ==
    /\ lastOp.op = "Reopen" /\ opened
    /\ SealedIds # {} /\ Cardinality(SealedIds) < SetMax(SealedIds) + 1
    /\ ActiveKeys # {}

\* a is a prefix of b
IsPrefix(a, b) == Len(a) <= Len(b) /\ SubSeq(b, 1, Len(a)) = a

\* the sealed files are the same before and after the step
SealedUntouched ==
    \A p \in DOMAIN fs \ {outPath, tempPath} : p \in DOMAIN fs' /\ fs'[p] = fs[p]

\* C28 (append-only files, I4/I5): a put only appends to current-data, or
\* rotates and leaves the old content as the new sealed segment; nothing but
\* a merge changes or removes a sealed file; a merge leaves current-data,
\* the active id and the out-offset as they were.
AppendOnly ==
    [][/\ lastOp'.op = "Put" =>
             /\ SealedUntouched
             /\ IF activeSegmentID' = activeSegmentID
                THEN IsPrefix(fs[outPath], fs'[outPath])
                ELSE /\ SegPath(activeSegmentID) \in DOMAIN fs'
                     /\ fs'[SegPath(activeSegmentID)] = fs[outPath]
       /\ lastOp'.op = "Reopen" => (SealedUntouched /\ fs'[outPath] = fs[outPath])
       /\ lastOp'.op = "Merge" =>
             /\ fs'[outPath] = fs[outPath]
             /\ activeSegmentID' = activeSegmentID
             /\ outOffset' = outOffset]_vars

\* C29 (offset bookkeeping): after any sequence of puts, successful or
\* failed with none or some of the bytes written, and of rotations, the
\* out-offset is the length of current-data, so that the index entry of the
\* next successful put is the start of its record.
OffsetBookkeeping ==
    opened => (outPath \in DOMAIN fs /\ outOffset = Len(fs[outPath]))

\* C30 (live index equals rebuilt index): in every state between two
\* requests that successful puts, rotations and merges have led to,
\* rebuildIndex over the files of the directory yields the live index.
LiveIndexRebuilt ==
    (opened /\ nWriteFails = 0) =>
        /\ rebuildIndex(World).err = "nil"
        /\ rebuildIndex(World).w.index = index

\* the sealed list is strictly ascending by id and every element's path is
\* segment-<its id>
SealedListOk ==
    /\ \A i \in 1..Len(segments) : segments[i].filePath = SegPath(segments[i].id)
    /\ \A i \in 1..(Len(segments) - 1) : segments[i].id < segments[i + 1].id

\* C31 (sealed list well-formedness): after any sequence of opens,
\* rotations, merges and reopens the sealed list is strictly ascending by
\* id, without duplicates, each element's path is segment-<its id>, and a
\* put that rotates never renames current-data onto a sealed file that
\* exists already.
SealedListWellFormed ==
    /\ [](opened => SealedListOk)
    /\ [][(lastOp'.op = "Put" /\ activeSegmentID' = activeSegmentID + 1)
            => SegPath(activeSegmentID) \notin DOMAIN fs]_vars

\* a put has rotated in a session that opened the directory a merge had left
\* with one sealed segment
SealedListSeen ==
    /\ opened /\ nReopens = 1
    /\ lastOp.op = "Put" /\ lastOp.key # MergeKey /\ lastOp.err = "nil"
    /\ Len(segments) = 2 /\ activeSegmentID = 2
    /\ SegPath(1) \in DOMAIN fs

====
